---- MODULE Spec2Model ----
(***************************************************************************)
(* Ingestion, state-reconciliation and dispatch core of the MessengerFlow  *)
(* inbox: the webhook router (server/routes/webhook.js) writing to the     *)
(* conversations / messages tables, and the chat window's optimistic send  *)
(* (components/Inbox/ChatWindow.tsx).                                      *)
(***************************************************************************)
EXTENDS Integers, Sequences, FiniteSets, TLC

(***************************************************************************)
(* Input universe                                                          *)
(***************************************************************************)
\* pm2 runs the server as 2 cluster instances; each in-flight POST is one
\* of these handler activations.
Requests == {"w1", "w2"}

\* JS null / undefined.
Null == "null"

\* Cap of the unread counter explored by the model.
MaxUnread == 2

\* new Date(ms).toISOString(): the instant split into its calendar part
\* (whole seconds) and the ".sss" millisecond field.
MsPerSecond == 1000

ToISOString(ms) == [sec |-> ms \div MsPerSecond, msec |-> ms % MsPerSecond]

\* new Date(iso).getTime(): milliseconds since the epoch of a stored instant.
Millis(iso) == iso.sec * MsPerSecond + iso.msec

\* new Date(x) is an Invalid Date for undefined / NaN; toISOString() then
\* throws a RangeError.  Invalid inputs are modelled by a negative number.
IsValidDate(ms) == ms >= 0

\* Variant: the watermark filter written with .lt instead of .lte.
TsLte_Strict(a, b) == a.sec < b.sec \/ (a.sec = b.sec /\ a.msec < b.msec)

\* timestamptz comparison  a <= b  of two stored instants.
TsLte(a, b) == a.sec < b.sec \/ (a.sec = b.sec /\ a.msec <= b.msec)

(***************************************************************************)
(* Webhook payloads (Messenger platform)                                   *)
(***************************************************************************)
Event(kind, hasSender, hasRecipient, sender, recipient, mid, text, timestamp, mids, watermark) ==
    [kind |-> kind, hasSender |-> hasSender, hasRecipient |-> hasRecipient,
     sender |-> sender, recipient |-> recipient, mid |-> mid, text |-> text,
     timestamp |-> timestamp, mids |-> mids, watermark |-> watermark]

MessageEvent(mid, sender, page, text, ts) ==
    Event("message", TRUE, TRUE, sender, page, mid, text, ts, {}, 0)

DeliveryEvent(sender, page, mids) ==
    Event("delivery", TRUE, TRUE, sender, page, Null, "", 0, mids, 0)

ReadEvent(sender, page, watermark) ==
    Event("read", TRUE, TRUE, sender, page, Null, "", 0, {}, watermark)

\* Text messages the platform can deliver; a message id names one message.
TextMessages ==
    { MessageEvent("m1", "c1", "p1", "Hi", 999),
      MessageEvent("m2", "c1", "p1", "Yo", 1001),
      MessageEvent("m3", "c2", "p1", "Hi", 1000) }

\* An attachment-only message: message.text is undefined.
NonTextMessages == { MessageEvent("m4", "c1", "p1", "", 1000) }

DeliveryEvents ==
    { DeliveryEvent("c1", "p1", {"m1"}),
      DeliveryEvent("c1", "p1", {"zzz"}),
      DeliveryEvent("c2", "p1", {}) }

ReadEvents ==
    { ReadEvent("c1", "p1", 999),
      ReadEvent("c1", "p1", 1000) }

\* Sub-events that are none of message / delivery / read, or lack a sender
\* or a recipient.
OtherEvents ==
    { Event("postback", TRUE, TRUE, "c1", "p1", Null, "", 0, {}, 0),
      Event("message", FALSE, TRUE, Null, "p1", "m1", "Hi", 999, {}, 0),
      Event("message", TRUE, FALSE, "c1", Null, "m1", "Hi", 999, {}, 0) }

\* Events whose time field does not convert: new Date(x).toISOString()
\* throws inside the handler's own try.
InvalidDateEvents ==
    { MessageEvent("m2", "c1", "p1", "Yo", -1),
      ReadEvent("c1", "p1", -1) }

WebhookEvents ==
    TextMessages \cup NonTextMessages \cup DeliveryEvents \cup ReadEvents
        \cup OtherEvents \cup InvalidDateEvents

\* One element of body.entry: its messaging list may be absent.
Entry(hasMessaging, messaging) ==
    [hasMessaging |-> hasMessaging, messaging |-> messaging]

Entries ==
    { Entry(TRUE, <<e>>) : e \in WebhookEvents }
        \cup { Entry(TRUE, <<>>), Entry(FALSE, <<>>) }

Body(object, entry) == [object |-> object, entry |-> entry]

\* Request bodies of the concurrent specifications: one entry each (a text
\* message, an attachment, a receipt, an entry without messaging list), or
\* a body that is not a page subscription.
Bodies ==
    { Body("page", <<Entry(TRUE, <<e>>)>>) :
        e \in TextMessages \cup NonTextMessages \cup ReadEvents
               \cup { d \in DeliveryEvents : d.mids # {} } }
        \cup { Body("page", <<Entry(FALSE, <<>>)>>), Body("user", <<>>) }

\* Batched deliveries: the platform packs two entries into one POST; any
\* entry comes first, a message, a receipt or a broken entry second.
BatchBodies ==
    { Body("page", <<a, b>>) :
        a \in Entries,
        b \in { Entry(TRUE, <<e>>) :
                  e \in { MessageEvent("m1", "c1", "p1", "Hi", 999),
                          MessageEvent("m3", "c2", "p1", "Hi", 1000),
                          DeliveryEvent("c1", "p1", {"m1"}),
                          ReadEvent("c1", "p1", 1000) } }
              \cup { Entry(FALSE, <<>>) } }

(***************************************************************************)
(* State                                                                   *)
(***************************************************************************)
VARIABLES
    conversations,  \* table conversations: id -> row
    messages,       \* table messages: id -> row
    pc,             \* per request: position in router.post / handlers
    body,           \* per request: req.body
    idx,            \* per request: index of the entry the for-loop is at
    existingConv,   \* per request: handleMessage's existingConv (id or Null)
    res,            \* per request: the HTTP response sent so far
    failed,         \* per request: some store call of this request errored
    logged,         \* per request: logger.error was called for this request
    snap            \* per request: the store when the request arrived, kept
                    \*   (solo) while no other request has overlapped it

serverVars == <<conversations, messages, pc, body, idx, existingConv, res, failed,
                logged, snap>>

\* One chat window (ChatWindow.tsx) and what it talks to.
VARIABLES
    chat,            \* the window's props and clock: open, conversation, page, now
    localMessages,   \* AppContext messages, the local view: id -> Message
    inputText,       \* useState inputText
    isSending,       \* useState isSending
    lastError,       \* useState lastError
    showRestrictedPopup, \* useState showRestrictedPopup
    sentMessageIds,  \* useRef sentMessageIds
    pending,         \* the handleSend awaiting sendPageMessage, or NoSend
    thread,          \* the platform's copy of the conversation thread
    sendLog          \* per initiated send: "pending", "confirmed" or "failed"

chatVars == <<chat, localMessages, inputText, isSending, lastError,
              showRestrictedPopup, sentMessageIds, pending, thread, sendLog>>

\* The agent API (routes/api.js): one handler activation.
VARIABLES
    api,             \* the request being served: position, input, locals, response
    msgSeq           \* how many outbound message ids have been generated

apiVars == <<api, msgSeq>>

\* The thread-sync effect of the chat window (ChatWindow.tsx:65-100).
VARIABLES
    effect,          \* the effect run in force: its closure and its interval
    polls,           \* the syncThread calls that have not returned yet
    pollSeq          \* how many syncThread calls have reached their fetch

pollVars == <<effect, polls, pollSeq>>

\* The realtime client (services/supabaseClient.ts) and the change feed.
VARIABLES
    channels,             \* channels registered with the realtime client
    messagesChannel,      \* module variable messagesChannel (channel id or 0)
    conversationsChannel, \* module variable conversationsChannel (id or 0)
    chanSeq,              \* how many channels have been created
    received,             \* what the callbacks onMessage / onUpdate were given
    wal                   \* committed writes not yet pushed to the client

subVars == <<channels, messagesChannel, conversationsChannel, chanSeq, received>>
rtVars == <<subVars, wal>>

\* The verification handshake of the webhook router (GET /webhook).
VARIABLES
    VERIFY_TOKEN,         \* module constant VERIFY_TOKEN, set when the router loads
    get                   \* the last verification request and its response

getVars == <<VERIFY_TOKEN, get>>

vars == <<serverVars, chatVars, apiVars, pollVars, rtVars, getVars>>

NoBody == Body(Null, <<>>)
NoResponse == [status |-> 0, text |-> ""]
EmptyTable == [id \in {} |-> Null]
NoSnap == [solo |-> FALSE, conversations |-> EmptyTable, messages |-> EmptyTable]

(***************************************************************************)
(* Store operations (PostgREST calls on the schema of supabase-schema.sql) *)
(***************************************************************************)
Ids(table) == DOMAIN table

\* .from('conversations').select('id').eq('customerId',c).eq('pageId',p)
ConversationsOf(convs, customerId, pageId) ==
    { id \in Ids(convs) : convs[id].customerId = customerId /\ convs[id].pageId = pageId }

\* .single(): data is the row when exactly one row matches, null otherwise.
SelectSingle(convs, customerId, pageId) ==
    LET found == ConversationsOf(convs, customerId, pageId)
    IN  IF Cardinality(found) = 1 THEN CHOOSE id \in found : TRUE ELSE Null

\* Variant: the table is replaced by the one row written.
Upsert_Truncating(table, row) ==
    [id \in {row.id} |-> row]

\* .upsert(row): insert, or replace the row with the same primary key.
Upsert(table, row) ==
    [id \in Ids(table) \cup {row.id} |-> IF id = row.id THEN row ELSE table[id]]

\* Variant: the table without the reference to conversations(id).
InsertRejected_NoReference(msgs, convs, row) ==
    row.id \in Ids(msgs)

\* messages.id is the PRIMARY KEY; conversationId REFERENCES conversations(id).
InsertRejected(msgs, convs, row) ==
    row.id \in Ids(msgs) \/ row.conversationId \notin Ids(convs)

\* Variant: the write is an upsert, a stored row is replaced.
Insert_Replace(msgs, convs, row) ==
    IF row.conversationId \notin Ids(convs) THEN msgs
    ELSE [id \in Ids(msgs) \cup {row.id} |-> IF id = row.id THEN row ELSE msgs[id]]

\* .insert(row): adds the row unless a constraint rejects it.
Insert(msgs, convs, row) ==
    IF InsertRejected(msgs, convs, row) THEN msgs
    ELSE [id \in Ids(msgs) \cup {row.id} |-> IF id = row.id THEN row ELSE msgs[id]]

\* The row changes of one committed write, as the change feed reports them:
\* the event type and the row (payload.new, or payload.old for a delete).
\* A write that leaves a row's values as they were is not reported here.
Changes(old, new) ==
    { [eventType |-> "INSERT", row |-> new[id]] : id \in Ids(new) \ Ids(old) }
        \cup { [eventType |-> "UPDATE", row |-> new[id]] :
                  id \in { i \in Ids(old) \cap Ids(new) : old[i] # new[i] } }
        \cup { [eventType |-> "DELETE", row |-> old[id]] : id \in Ids(old) \ Ids(new) }

\* The change feed after a write that took the tables from (convs, msgs) to
\* (convs2, msgs2); nothing is queued while no channel is registered.
Publish(convs, convs2, msgs, msgs2) ==
    IF channels = {} \/ (convs2 = convs /\ msgs2 = msgs) THEN wal
    ELSE Append(wal, [conversations |-> Changes(convs, convs2),
                      messages |-> Changes(msgs, msgs2)])

(***************************************************************************)
(* handleMessage                                                           *)
(***************************************************************************)
\* `${pageId}_${senderId}`
ConversationId(pageId, senderId) == pageId \o "_" \o senderId

\* `User ${senderId.substring(0, 8)}` (ids of the model are shorter than 8)
SenderName(senderId) == "User " \o senderId

\* Variant: the identity also depends on the message that caused the creation.
NewConversation_PerMessage(ev) ==
    [id |-> ConversationId(ev.recipient, ev.sender) \o "_" \o ev.mid,
     pageId |-> ev.recipient,
     customerId |-> ev.sender,
     customerName |-> SenderName(ev.sender),
     customerAvatar |-> "",
     lastMessage |-> ev.text,
     lastTimestamp |-> ToISOString(ev.timestamp),
     status |-> "OPEN",
     assignedAgentId |-> Null,
     unreadCount |-> 1]

\* Variant: the counter is left at the column default of the schema.
NewConversation_DefaultUnread(ev) ==
    [id |-> ConversationId(ev.recipient, ev.sender),
     pageId |-> ev.recipient,
     customerId |-> ev.sender,
     customerName |-> SenderName(ev.sender),
     customerAvatar |-> "",
     lastMessage |-> ev.text,
     lastTimestamp |-> ToISOString(ev.timestamp),
     status |-> "OPEN",
     assignedAgentId |-> Null,
     unreadCount |-> 0]

\* The row of the upsert that creates a conversation.
NewConversation(ev) ==
    [id |-> ConversationId(ev.recipient, ev.sender),
     pageId |-> ev.recipient,
     customerId |-> ev.sender,
     customerName |-> SenderName(ev.sender),
     customerAvatar |-> "",
     lastMessage |-> ev.text,
     lastTimestamp |-> ToISOString(ev.timestamp),
     status |-> "OPEN",
     assignedAgentId |-> Null,
     unreadCount |-> 1]

\* .update({lastMessage, lastTimestamp, unreadCount: rpc('increment', {x: 1})})
\* .eq('id', id): the counter expression is read as the increment by one it
\* names; a store that rejects the call is the ok = FALSE case of the step.
TouchConversation(convs, id, ev) ==
    [c \in Ids(convs) |->
        IF c = id
        THEN [convs[c] EXCEPT !.lastMessage = ev.text,
                              !.lastTimestamp = ToISOString(ev.timestamp),
                              !.unreadCount = @ + 1]
        ELSE convs[c]]

\* existingConv?.id || `${pageId}_${senderId}`
MessageConversationId(existing, ev) ==
    IF existing # Null THEN existing ELSE ConversationId(ev.recipient, ev.sender)

\* The row of the insert that stores the inbound message.
InboundMessage(existing, ev) ==
    [id |-> ev.mid,
     conversationId |-> MessageConversationId(existing, ev),
     senderId |-> ev.sender,
     senderName |-> SenderName(ev.sender),
     text |-> ev.text,
     timestamp |-> ToISOString(ev.timestamp),
     isIncoming |-> TRUE,
     isRead |-> FALSE]

(***************************************************************************)
(* handleDelivery / handleRead                                             *)
(***************************************************************************)
\* Variant: the update without its .in('id', ...) filter.
MarkDelivered_Unfiltered(msgs, mids) ==
    [id \in Ids(msgs) |-> [msgs[id] EXCEPT !.isRead = TRUE]]

\* .update({ isRead: true }).in('id', messageIds)
MarkDelivered(msgs, mids) ==
    [id \in Ids(msgs) |->
        IF id \in mids THEN [msgs[id] EXCEPT !.isRead = TRUE] ELSE msgs[id]]

\* Variant: the flag is assigned from the comparison for every row.
MarkReadUpTo_Assign(msgs, watermark) ==
    [id \in Ids(msgs) |->
        [msgs[id] EXCEPT !.isRead = TsLte(msgs[id].timestamp, ToISOString(watermark))]]

\* .update({ isRead: true }).lte('timestamp', new Date(watermark).toISOString())
MarkReadUpTo(msgs, watermark) ==
    [id \in Ids(msgs) |->
        IF TsLte(msgs[id].timestamp, ToISOString(watermark))
        THEN [msgs[id] EXCEPT !.isRead = TRUE]
        ELSE msgs[id]]

(***************************************************************************)
(* router.post('/')                                                        *)
(***************************************************************************)
\* res.status(200).send('EVENT_RECEIVED')
Acknowledgment == [status |-> 200, text |-> "EVENT_RECEIVED"]

\* Variant: the acknowledgment is left for after the processing.
SendAck_Deferred(response) == response

\* The response once line 36 has run, given the response so far.
SendAck(response) == Acknowledgment

CurrentEntry(r) == body[r].entry[idx[r]]
CurrentEvent(r) == CurrentEntry(r).messaging[1]

InFlight(r) == pc[r] \notin {"idle"}

\* Variant: handleMessage without its text guard.
HasText_Always(ev) == TRUE

\* message.text is truthy.
HasText(ev) == ev.text # ""

\* Where the for-loop goes for the entry it is at: into a handler's first
\* store call, on to the next entry, or out through the catch of line 59.
Route(entry) ==
    IF ~entry.hasMessaging THEN "throw"                 \* entry.messaging[0]
    ELSE IF entry.messaging = <<>> THEN "continue"      \* !webhookEvent
    ELSE LET ev == entry.messaging[1] IN
         IF ~ev.hasSender THEN "throw"                  \* webhookEvent.sender.id
         ELSE IF ~ev.hasRecipient THEN "throw"          \* webhookEvent.recipient.id
         ELSE IF ev.kind = "message" THEN
                 IF ~HasText(ev) THEN "continue"        \* non-text: warn, return
                 ELSE IF ~IsValidDate(ev.timestamp) THEN "continue"
                 ELSE "select"
         ELSE IF ev.kind = "delivery" THEN
                 IF ev.mids = {} THEN "continue" ELSE "delivery"
         ELSE IF ev.kind = "read" THEN
                 IF ~IsValidDate(ev.watermark) THEN "continue" ELSE "read"
         ELSE "continue"

\* logger.error in a catch: the catch around the for-loop takes what Route
\* throws, the handler's own catch takes the RangeError of toISOString().
RouteLogs(entry) ==
    \/ Route(entry) = "throw"
    \/ /\ entry.hasMessaging /\ entry.messaging # <<>>
       /\ LET ev == entry.messaging[1] IN
          /\ ev.hasSender /\ ev.hasRecipient
          /\ \/ ev.kind = "message" /\ HasText(ev) /\ ~IsValidDate(ev.timestamp)
             \/ ev.kind = "read" /\ ~IsValidDate(ev.watermark)

\* The request arrives: the acknowledgment is sent, then processing starts.
Post(r, b) ==
    /\ pc[r] = "idle"
    /\ res' = [res EXCEPT ![r] = SendAck(@)]
    /\ body' = [body EXCEPT ![r] = b]
    /\ idx' = [idx EXCEPT ![r] = 1]
    /\ pc' = [pc EXCEPT ![r] = IF b.object = "page" THEN "loop" ELSE "done"]
    /\ snap' = [q \in Requests |->
                  IF q = r
                  THEN IF \A o \in Requests \ {r} : ~InFlight(o)
                       THEN [solo |-> TRUE, conversations |-> conversations,
                             messages |-> messages]
                       ELSE NoSnap
                  ELSE IF InFlight(q) THEN NoSnap ELSE snap[q]]
    /\ UNCHANGED <<conversations, messages, existingConv, failed, logged>>
    /\ UNCHANGED <<chatVars, apiVars, pollVars, rtVars, getVars>>

\* Variant: the for-loop without the try / catch around it; the TypeError
\* rejects the promise of the async route handler.
OnThrow_Uncaught == "rejected"

\* catch (error) { logger.error(...) }: the exception ends the for-loop and
\* the handler returns normally.
OnThrow == "done"

\* One turn of `for (const entry of body.entry)` up to the first store call.
Dispatch(r) ==
    /\ pc[r] = "loop"
    /\ IF idx[r] > Len(body[r].entry)
       THEN /\ pc' = [pc EXCEPT ![r] = "done"]
            /\ idx' = idx
       ELSE LET to == Route(CurrentEntry(r)) IN
            /\ pc' = [pc EXCEPT ![r] =
                        CASE to = "throw" -> OnThrow
                          [] to = "continue" -> "loop"
                          [] OTHER -> to]
            /\ idx' = [idx EXCEPT ![r] = IF to = "continue" THEN @ + 1 ELSE @]
    /\ logged' = [logged EXCEPT ![r] =
                    @ \/ (idx[r] <= Len(body[r].entry) /\ RouteLogs(CurrentEntry(r)))]
    /\ UNCHANGED <<conversations, messages, body, existingConv, res, failed, snap>>
    /\ UNCHANGED <<chatVars, apiVars, pollVars, rtVars, getVars>>

\* handleMessage: the existence check (lines 82-87).
SelectConversation(r, ok) ==
    /\ pc[r] = "select"
    /\ existingConv' = [existingConv EXCEPT ![r] =
            IF ok THEN SelectSingle(conversations, CurrentEvent(r).sender,
                                    CurrentEvent(r).recipient)
            ELSE Null]
    /\ failed' = [failed EXCEPT ![r] = @ \/ ~ok]
    /\ logged' = logged                \* the returned error is not read
    /\ pc' = [pc EXCEPT ![r] = "write"]
    /\ UNCHANGED <<conversations, messages, body, idx, res, snap>>
    /\ UNCHANGED <<chatVars, apiVars, pollVars, rtVars, getVars>>

\* handleMessage: the conversation write (lines 89-119).
WriteConversation(r, ok) ==
    /\ pc[r] = "write"
    /\ existingConv[r] \in Ids(conversations)
          => conversations[existingConv[r]].unreadCount < MaxUnread
    /\ conversations' =
          IF ~ok THEN conversations
          ELSE IF existingConv[r] = Null
               THEN Upsert(conversations, NewConversation(CurrentEvent(r)))
               ELSE TouchConversation(conversations, existingConv[r], CurrentEvent(r))
    /\ failed' = [failed EXCEPT ![r] = @ \/ ~ok]
    /\ logged' = logged                \* the returned error is not read
    /\ pc' = [pc EXCEPT ![r] = "insert"]
    /\ UNCHANGED <<messages, body, idx, existingConv, res, snap>>
    /\ UNCHANGED <<chatVars, apiVars, pollVars, subVars, getVars>>
    /\ wal' = Publish(conversations, conversations', messages, messages')

\* handleMessage: the message insert (lines 122-139), then the next entry.
InsertMessage(r, ok) ==
    /\ pc[r] = "insert"
    /\ messages' =
          IF ok THEN Insert(messages, conversations,
                            InboundMessage(existingConv[r], CurrentEvent(r)))
          ELSE messages
    /\ failed' = [failed EXCEPT ![r] = @ \/ ~ok]
    /\ logged' = [logged EXCEPT ![r] =              \* if (messageError)
                    @ \/ ~ok \/ InsertRejected(messages, conversations,
                                    InboundMessage(existingConv[r], CurrentEvent(r)))]
    /\ pc' = [pc EXCEPT ![r] = "loop"]
    /\ idx' = [idx EXCEPT ![r] = @ + 1]
    /\ UNCHANGED <<conversations, body, existingConv, res, snap>>
    /\ UNCHANGED <<chatVars, apiVars, pollVars, subVars, getVars>>
    /\ wal' = Publish(conversations, conversations', messages, messages')

\* handleDelivery: the update of lines 153-156, then the next entry.
ApplyDelivery(r, ok) ==
    /\ pc[r] = "delivery"
    /\ messages' = IF ok THEN MarkDelivered(messages, CurrentEvent(r).mids) ELSE messages
    /\ failed' = [failed EXCEPT ![r] = @ \/ ~ok]
    /\ logged' = logged                \* the returned error is not read
    /\ pc' = [pc EXCEPT ![r] = "loop"]
    /\ idx' = [idx EXCEPT ![r] = @ + 1]
    /\ UNCHANGED <<conversations, body, existingConv, res, snap>>
    /\ UNCHANGED <<chatVars, apiVars, pollVars, subVars, getVars>>
    /\ wal' = Publish(conversations, conversations', messages, messages')

\* handleRead: the update of lines 172-175, then the next entry.
ApplyRead(r, ok) ==
    /\ pc[r] = "read"
    /\ messages' = IF ok THEN MarkReadUpTo(messages, CurrentEvent(r).watermark) ELSE messages
    /\ failed' = [failed EXCEPT ![r] = @ \/ ~ok]
    /\ logged' = logged                \* the returned error is not read
    /\ pc' = [pc EXCEPT ![r] = "loop"]
    /\ idx' = [idx EXCEPT ![r] = @ + 1]
    /\ UNCHANGED <<conversations, body, existingConv, res, snap>>
    /\ UNCHANGED <<chatVars, apiVars, pollVars, subVars, getVars>>
    /\ wal' = Publish(conversations, conversations', messages, messages')

\* The handler activation ends; its slot takes the next request.
Finish(r) ==
    /\ pc[r] = "done"
    /\ pc' = [pc EXCEPT ![r] = "idle"]
    /\ body' = [body EXCEPT ![r] = NoBody]
    /\ idx' = [idx EXCEPT ![r] = 0]
    /\ res' = [res EXCEPT ![r] = NoResponse]
    /\ failed' = [failed EXCEPT ![r] = FALSE]
    /\ logged' = [logged EXCEPT ![r] = FALSE]
    /\ snap' = [snap EXCEPT ![r] = NoSnap]
    /\ existingConv' = [existingConv EXCEPT ![r] = Null]
    /\ UNCHANGED <<conversations, messages>>
    /\ UNCHANGED <<chatVars, apiVars, pollVars, rtVars, getVars>>

(***************************************************************************)
(* Agent API: POST /send-message, PATCH /conversations/:id                 *)
(***************************************************************************)
\* Cap of the outbound message ids generated in one run of the model.
MaxOutbound == 2

\* CHECK (status IN ('OPEN', 'PENDING', 'RESOLVED'))
Statuses == {"OPEN", "PENDING", "RESOLVED"}

\* req.body of PATCH: the fields to set.  The agent's status menu sends
\* { status }; "ARCHIVED" stands for a value outside the enum.
Patches == { [status |-> s] : s \in Statuses \cup {"ARCHIVED"} }

NoApi ==
    [pc |-> "idle", op |-> Null, conversationId |-> Null, text |-> "",
     senderId |-> Null, updates |-> [status |-> Null], messageId |-> Null,
     timestamp |-> ToISOString(0), status |-> 0, failed |-> FALSE,
     prior |-> Null]

\* `msg_${Date.now()}_${Math.random().toString(36).substr(2, 9)}`: a new id
\* at every call.
MessageId(n) == "msg_" \o ToString(n)

\* The row of the insert that records an outbound message.
OutboundMessage(conversationId, text, senderId, messageId, timestamp) ==
    [id |-> messageId,
     conversationId |-> conversationId,
     senderId |-> IF senderId = Null THEN "agent" ELSE senderId,
     senderName |-> "Agent",
     text |-> text,
     timestamp |-> timestamp,
     isIncoming |-> FALSE,
     isRead |-> TRUE]

\* Variant: an agent's reply also clears the unread counter.
SetLastMessage_ClearsUnread(convs, id, text, timestamp) ==
    [c \in Ids(convs) |->
        IF c = id
        THEN [convs[c] EXCEPT !.lastMessage = text, !.lastTimestamp = timestamp,
                              !.unreadCount = 0]
        ELSE convs[c]]

\* .update({ lastMessage: text, lastTimestamp: timestamp }).eq('id', id)
SetLastMessage(convs, id, text, timestamp) ==
    [c \in Ids(convs) |->
        IF c = id
        THEN [convs[c] EXCEPT !.lastMessage = text, !.lastTimestamp = timestamp]
        ELSE convs[c]]

\* Variant: a resolved conversation is closed for good.
UpdateConversation_ResolvedIsFinal(convs, id, updates) ==
    [c \in Ids(convs) |->
        IF c = id /\ convs[c].status # "RESOLVED"
        THEN [convs[c] EXCEPT !.status = updates.status]
        ELSE convs[c]]

\* .update(updates).eq('id', id)
UpdateConversation(convs, id, updates) ==
    [c \in Ids(convs) |->
        IF c = id THEN [convs[c] EXCEPT !.status = updates.status] ELSE convs[c]]

\* .update(...).eq('id', id).select().single() returns an error when no row
\* has the id or the new row violates the CHECK on status.  The column is
\* nullable, and a CHECK whose condition is unknown (status IS NULL) passes.
UpdateRejected(convs, id, updates) ==
    id \notin Ids(convs) \/ updates.status \notin Statuses \cup {Null}

\* POST /send-message up to the insert: validation, id and timestamp.
SendMessageRequest(conversationId, text, senderId, now) ==
    /\ api.pc = "idle"
    /\ msgSeq < MaxOutbound
    /\ IF conversationId = Null \/ text = ""
       THEN /\ api' = [NoApi EXCEPT !.pc = "done", !.op = "send",
                                    !.conversationId = conversationId,
                                    !.text = text, !.senderId = senderId,
                                    !.status = 400]
            /\ msgSeq' = msgSeq
       ELSE /\ api' = [NoApi EXCEPT !.pc = "insert", !.op = "send",
                                    !.conversationId = conversationId,
                                    !.text = text, !.senderId = senderId,
                                    !.messageId = MessageId(msgSeq + 1),
                                    !.timestamp = ToISOString(now)]
            /\ msgSeq' = msgSeq + 1
    /\ UNCHANGED <<serverVars, chatVars, pollVars, rtVars, getVars>>

\* POST /send-message: the insert; `if (error) throw error` answers 500.
SendMessageInsert(ok) ==
    /\ api.pc = "insert"
    /\ LET row == OutboundMessage(api.conversationId, api.text, api.senderId,
                                  api.messageId, api.timestamp)
           error == ~ok \/ InsertRejected(messages, conversations, row)
       IN  /\ messages' = IF error THEN messages
                          ELSE Insert(messages, conversations, row)
           /\ api' = IF error THEN [api EXCEPT !.pc = "done", !.status = 500,
                                                 !.failed = ~ok]
                     ELSE [api EXCEPT !.pc = "update"]
    /\ UNCHANGED <<conversations, pc, body, idx, existingConv, res, failed, logged, snap>>
    /\ UNCHANGED <<msgSeq, chatVars, pollVars, subVars, getVars>>
    /\ wal' = Publish(conversations, conversations', messages, messages')

\* POST /send-message: the conversation update (its result is not looked
\* at), then res.json.
SendMessageUpdate(ok) ==
    /\ api.pc = "update"
    /\ conversations' =
          IF ok THEN SetLastMessage(conversations, api.conversationId,
                                    api.text, api.timestamp)
          ELSE conversations
    /\ api' = [api EXCEPT !.pc = "done", !.status = 200, !.failed = ~ok]
    /\ UNCHANGED <<messages, pc, body, idx, existingConv, res, failed, logged, snap>>
    /\ UNCHANGED <<msgSeq, chatVars, pollVars, subVars, getVars>>
    /\ wal' = Publish(conversations, conversations', messages, messages')

\* PATCH /conversations/:id arrives.
PatchRequest(id, updates) ==
    /\ api.pc = "idle"
    /\ api' = [NoApi EXCEPT !.pc = "patch", !.op = "patch",
                            !.conversationId = id, !.updates = updates]
    /\ UNCHANGED <<serverVars, chatVars, msgSeq, pollVars, rtVars, getVars>>

\* PATCH /conversations/:id: the one update; an error answers 500.
\* prior remembers the status the row had, failed that the store call
\* itself errored (history only).
PatchApply(ok) ==
    /\ api.pc = "patch"
    /\ LET error == ~ok \/ UpdateRejected(conversations, api.conversationId, api.updates)
       IN  /\ conversations' =
                  IF error THEN conversations
                  ELSE UpdateConversation(conversations, api.conversationId, api.updates)
           /\ api' = [api EXCEPT !.pc = "done",
                                 !.status = IF error THEN 500 ELSE 200,
                                 !.failed = ~ok,
                                 !.prior = IF api.conversationId \in Ids(conversations)
                                           THEN conversations[api.conversationId].status
                                           ELSE Null]
    /\ UNCHANGED <<messages, pc, body, idx, existingConv, res, failed, logged, snap>>
    /\ UNCHANGED <<msgSeq, chatVars, pollVars, subVars, getVars>>
    /\ wal' = Publish(conversations, conversations', messages, messages')

\* The response is out; the next API request can be served.
ApiFinish ==
    /\ api.pc = "done"
    /\ api' = NoApi
    /\ UNCHANGED <<serverVars, chatVars, msgSeq, pollVars, rtVars, getVars>>

(***************************************************************************)
(* ChatWindow: optimistic send and thread sync                            *)
(***************************************************************************)
\* Sends one window initiates in the model.
MaxSends == 2

\* 24 * 60 * 60 * 1000
DayMs == 24 * 60 * 60 * 1000
HourMs == 60 * 60 * 1000

\* Variant: the comparison written with >=.
IsWindowExpired_Inclusive(now, lastTime) == (now - lastTime) >= DayMs

\* The function of useMemo isWindowExpired: now and lastTime in milliseconds.
IsWindowExpired(now, lastTime) == (now - lastTime) > DayMs

\* Variant: the request never carries a tag.
SendTag_None(expired) == Null

\* isWindowExpired ? "HUMAN_AGENT" : undefined
SendTag(expired) == IF expired THEN "HUMAN_AGENT" ELSE Null

\* Instants of the browser's clock.
ChatClock == {HourMs, DayMs, DayMs + 1}

NoError == [message |-> "", isPolicy |-> FALSE]
NoSend == [stage |-> "none", n |-> 0, tempId |-> Null, text |-> "", tag |-> Null,
           forced |-> FALSE, timestamp |-> ToISOString(0)]

\* Texts the operator can type; libraryItems are the approved urls.
TypedTexts == {"", "Hi", "http://x.io"}
ApprovedUrls == {"http://ok.io"}

\* `temp-${Date.now()}-${random}` : fresh per call.
TempId(n) == "temp-" \o ToString(n)

\* The id the platform assigns to the n-th accepted send.
PlatformId(n) == "mid." \o ToString(n)

\* /(https?:\/\/[^\s]+)/g
Urls(text) == IF text \in {"http://x.io", "http://ok.io"} THEN {text} ELSE {}

\* validateMessageContent: no url outside the approved links.
ValidContent(text) == Urls(text) \subseteq ApprovedUrls

\* addMessage of the app store: a message is added under its id unless a
\* message with that id is already in the local view.
AddMessage(view, msg) ==
    IF msg.id \in Ids(view) THEN view
    ELSE [id \in Ids(view) \cup {msg.id} |-> IF id = msg.id THEN msg ELSE view[id]]

\* chatMessages: the messages of the open conversation, one bubble each
\* (the sort by timestamp orders the bubbles and drops none).
ChatMessages == { id \in Ids(localMessages) :
                    localMessages[id].conversationId = chat.conversationId }

OptimisticMessage(tempId, text, now) ==
    [id |-> tempId,
     conversationId |-> chat.conversationId,
     senderId |-> "agent",
     senderName |-> "Agent",
     text |-> text,
     timestamp |-> ToISOString(now),
     isIncoming |-> FALSE,
     isRead |-> TRUE]

\* Time passes while the window stays open.  isWindowExpired is memoized on
\* conversation.lastTimestamp alone, so it keeps the value of the render
\* that computed it.
Tick(t) ==
    /\ chat.open
    /\ t > chat.now
    /\ chat' = [chat EXCEPT !.now = t]
    /\ UNCHANGED <<localMessages, inputText, isSending, lastError,
                   showRestrictedPopup, sentMessageIds, pending, thread, sendLog>>
    /\ UNCHANGED <<serverVars, apiVars, pollVars, rtVars, getVars>>

\* onChange of the textarea.
TypeInput(text) ==
    /\ chat.open
    /\ inputText # text
    /\ inputText' = text
    /\ UNCHANGED <<chat, localMessages, isSending, lastError, showRestrictedPopup,
                   sentMessageIds, pending, thread, sendLog>>
    /\ UNCHANGED <<serverVars, apiVars, pollVars, rtVars, getVars>>

\* Variant: the guard without the isSending test.
SendRefused_EmptyOnly(textToSubmit, sending) ==
    textToSubmit = ""

\* if (!textToSubmit || isSending) return;
SendRefused(textToSubmit, sending) ==
    textToSubmit = "" \/ sending

\* handleSend up to the await of sendPageMessage (lines 126-176).
\* forcedText is "" when the send comes from the button or the Enter key.
HandleSend(forcedText) ==
    LET textToSubmit == IF forcedText # "" THEN forcedText ELSE inputText
        n == Len(sendLog) + 1
        expired == chat.isWindowExpired
    IN
    /\ chat.open
    /\ ~SendRefused(textToSubmit, isSending)
    /\ IF forcedText = "" /\ ~ValidContent(textToSubmit)
       THEN /\ showRestrictedPopup' = TRUE
            /\ UNCHANGED <<localMessages, isSending, lastError, sentMessageIds,
                           pending, sendLog>>
       ELSE IF ~chat.pageConnected
       THEN /\ lastError' = [message |-> "Page not connected", isPolicy |-> FALSE]
            /\ UNCHANGED <<localMessages, isSending, showRestrictedPopup,
                           sentMessageIds, pending, sendLog>>
       ELSE /\ n <= MaxSends
            /\ sentMessageIds' = sentMessageIds \cup {TempId(n)}
            /\ localMessages' = AddMessage(localMessages,
                                    OptimisticMessage(TempId(n), textToSubmit, chat.now))
            /\ isSending' = TRUE
            /\ lastError' = NoError       \* setLastError(null) follows the advisory
            /\ pending' = [stage |-> "sent", n |-> n, tempId |-> TempId(n),
                           text |-> textToSubmit,
                           tag |-> SendTag(expired),
                           forced |-> forcedText # "",
                           timestamp |-> ToISOString(chat.now)]
            /\ sendLog' = Append(sendLog, "pending")
            /\ UNCHANGED showRestrictedPopup
    /\ UNCHANGED <<chat, inputText, thread>>
    /\ UNCHANGED <<serverVars, apiVars, pollVars, rtVars, getVars>>

\* The platform accepts the request: the message is on the thread.
PlatformAccepts ==
    /\ pending.stage = "sent"
    /\ pending' = [pending EXCEPT !.stage = "accepted"]
    /\ thread' = AddMessage(thread,
                    [OptimisticMessage(PlatformId(pending.n), pending.text, chat.now)
                        EXCEPT !.timestamp = ToISOString(chat.now + 1)])
    /\ UNCHANGED <<chat, localMessages, inputText, isSending, lastError,
                   showRestrictedPopup, sentMessageIds, sendLog>>
    /\ UNCHANGED <<serverVars, apiVars, pollVars, rtVars, getVars>>

\* sendPageMessage resolves (lines 178-189, 202-204); withId: the response
\* carries message_id.
SendSucceeds(withId) ==
    /\ pending.stage = "accepted"
    /\ localMessages' =
          IF withId
          THEN AddMessage(localMessages,
                  [OptimisticMessage(pending.tempId, pending.text, 0)
                      EXCEPT !.timestamp = pending.timestamp,
                             !.id = PlatformId(pending.n)])
          ELSE localMessages
    /\ inputText' = IF pending.forced THEN inputText ELSE ""
    /\ isSending' = FALSE
    /\ pending' = NoSend
    /\ sendLog' = [sendLog EXCEPT ![pending.n] = "confirmed"]
    /\ UNCHANGED <<chat, lastError, showRestrictedPopup, sentMessageIds, thread>>
    /\ UNCHANGED <<serverVars, apiVars, pollVars, rtVars, getVars>>

\* Variant: the catch without the finally; isSending stays set.
SendFails_NoFinally(windowError) ==
    /\ pending.stage = "sent"
    /\ sentMessageIds' = sentMessageIds \ {pending.tempId}
    /\ lastError' = [message |-> "Failed to send message", isPolicy |-> windowError]
    /\ pending' = NoSend
    /\ sendLog' = [sendLog EXCEPT ![pending.n] = "failed"]
    /\ UNCHANGED <<chat, localMessages, inputText, isSending, showRestrictedPopup, thread>>
    /\ UNCHANGED <<serverVars, apiVars, pollVars, rtVars, getVars>>

\* sendPageMessage rejects (lines 190-204); windowError: code 10900 or a
\* '24 hour' message.
SendFails(windowError) ==
    /\ pending.stage = "sent"
    /\ sentMessageIds' = sentMessageIds \ {pending.tempId}
    /\ lastError' = IF windowError
                    THEN [message |-> "Cannot send message: 24-hour messaging window has expired.",
                          isPolicy |-> TRUE]
                    ELSE [message |-> "Failed to send message", isPolicy |-> FALSE]
    /\ isSending' = FALSE
    /\ pending' = NoSend
    /\ sendLog' = [sendLog EXCEPT ![pending.n] = "failed"]
    /\ UNCHANGED <<chat, localMessages, inputText, showRestrictedPopup, thread>>
    /\ UNCHANGED <<serverVars, apiVars, pollVars, rtVars, getVars>>

\* syncThread (lines 69-88): the thread is fetched and the messages whose
\* id the local view lacks are added.
SyncThread ==
    /\ chat.open
    /\ chat.pageConnected
    /\ \E id \in Ids(thread) : id \notin Ids(localMessages)
    /\ localMessages' = [id \in Ids(localMessages) \cup Ids(thread) |->
                            IF id \in Ids(localMessages) THEN localMessages[id]
                            ELSE thread[id]]
    /\ UNCHANGED <<chat, inputText, isSending, lastError, showRestrictedPopup,
                   sentMessageIds, pending, thread, sendLog>>
    /\ UNCHANGED <<serverVars, apiVars, pollVars, rtVars, getVars>>

\* The X of the error banner.
DismissError ==
    /\ lastError # NoError
    /\ lastError' = NoError
    /\ UNCHANGED <<chat, localMessages, inputText, isSending, showRestrictedPopup,
                   sentMessageIds, pending, thread, sendLog>>
    /\ UNCHANGED <<serverVars, apiVars, pollVars, rtVars, getVars>>

\* The 'Got it' button (or the backdrop) of the restricted-content popup.
ClosePopup ==
    /\ showRestrictedPopup
    /\ showRestrictedPopup' = FALSE
    /\ UNCHANGED <<chat, localMessages, inputText, isSending, lastError,
                   sentMessageIds, pending, thread, sendLog>>
    /\ UNCHANGED <<serverVars, apiVars, pollVars, rtVars, getVars>>

(***************************************************************************)
(* ChatWindow: the thread-sync effect, call by call                        *)
(***************************************************************************)
\* Caps of the effect runs and of the syncThread calls explored.
MaxEffects == 3
MaxPolls == 3

NoEffect == [mounted |-> FALSE, gen |-> 0, timer |-> FALSE, len |-> 0, known |-> {}]

\* What fetchThreadMessages returns, in the platform's order: the thread of
\* the open conversation holds two messages of the customer.
ThreadOrder == <<"m1", "m2">>

PolledThread ==
    [id \in {"m1", "m2"} |->
        InboundMessage("p1_c1",
            IF id = "m1" THEN MessageEvent("m1", "c1", "p1", "Hi", 999)
            ELSE MessageEvent("m2", "c1", "p1", "Yo", 1001))]

\* The closure's isMounted, for a call made by effect run gen.
IsMounted(gen) == effect.mounted /\ effect.gen = gen

\* metaMsgs.filter(m => !messages.find(existing => existing.id === m.id)),
\* messages being the array the closure captured.
NewMsgs(known) ==
    SelectSeq(ThreadOrder, LAMBDA id : id \in Ids(thread) /\ id \notin known)

\* syncThread up to its await of fetchThreadMessages, called by run gen.
\* Without a page token the call returns at once.
CallSyncThread(gen) ==
    IF chat.pageConnected
    THEN /\ pollSeq < MaxPolls
         /\ polls' = polls \cup {[n |-> pollSeq + 1, gen |-> gen, stage |-> "fetch",
                                  known |-> Ids(localMessages), remaining |-> <<>>]}
         /\ pollSeq' = pollSeq + 1
    ELSE UNCHANGED <<polls, pollSeq>>

\* The effect runs: at mount, and again (cleanup of the run before, then
\* the body) when messages.length has changed.  The body calls syncThread
\* and sets the 500 ms interval.
RunEffect ==
    /\ chat.open
    /\ ~effect.mounted \/ effect.len # Cardinality(Ids(localMessages))
    /\ effect.gen < MaxEffects
    /\ effect' = [mounted |-> TRUE, gen |-> effect.gen + 1, timer |-> TRUE,
                  len |-> Cardinality(Ids(localMessages)),
                  known |-> Ids(localMessages)]
    /\ CallSyncThread(effect.gen + 1)
    /\ UNCHANGED <<serverVars, chatVars, apiVars, rtVars, getVars>>

\* The interval fires: setInterval calls syncThread whatever the state of
\* the call before.
IntervalFires ==
    /\ effect.timer
    /\ chat.pageConnected
    /\ CallSyncThread(effect.gen)
    /\ UNCHANGED <<serverVars, chatVars, apiVars, effect, rtVars, getVars>>

\* fetchThreadMessages resolves: when the closure is still mounted (line
\* 75) the new messages are picked and addMessage is called for the first
\* of them, up to its await; otherwise the call ends.
FetchReturns(p) ==
    /\ p \in polls
    /\ p.stage = "fetch"
    /\ IF IsMounted(p.gen) /\ NewMsgs(p.known) # <<>>
       THEN LET newMsgs == NewMsgs(p.known) IN
            /\ localMessages' = AddMessage(localMessages, thread[Head(newMsgs)])
            /\ polls' = IF Tail(newMsgs) = <<>> THEN polls \ {p}
                        ELSE (polls \ {p}) \cup
                                {[p EXCEPT !.stage = "add", !.remaining = Tail(newMsgs)]}
       ELSE /\ localMessages' = localMessages
            /\ polls' = polls \ {p}
    /\ UNCHANGED <<chat, inputText, isSending, lastError, showRestrictedPopup,
                   sentMessageIds, pending, thread, sendLog>>
    /\ UNCHANGED <<serverVars, apiVars, effect, pollSeq, rtVars, getVars>>

\* fetchThreadMessages rejects: the catch is silent, the call ends.
FetchFails(p) ==
    /\ p \in polls
    /\ p.stage = "fetch"
    /\ polls' = polls \ {p}
    /\ UNCHANGED <<serverVars, chatVars, apiVars, effect, pollSeq, rtVars, getVars>>

\* The await of addMessage resolves and the for-loop of line 78 calls
\* addMessage for the next message; isMounted is not read again.
AddPolled(p) ==
    /\ p \in polls
    /\ p.stage = "add"
    /\ localMessages' = AddMessage(localMessages, thread[Head(p.remaining)])
    /\ polls' = IF Tail(p.remaining) = <<>> THEN polls \ {p}
                ELSE (polls \ {p}) \cup {[p EXCEPT !.remaining = Tail(@)]}
    /\ UNCHANGED <<chat, inputText, isSending, lastError, showRestrictedPopup,
                   sentMessageIds, pending, thread, sendLog>>
    /\ UNCHANGED <<serverVars, apiVars, effect, pollSeq, rtVars, getVars>>

\* The chat is closed: the effect's cleanup sets isMounted to false and
\* clears the interval.
CloseChat ==
    /\ chat.open
    /\ effect.mounted
    /\ chat' = [chat EXCEPT !.open = FALSE]
    /\ effect' = [effect EXCEPT !.mounted = FALSE, !.timer = FALSE]
    /\ UNCHANGED <<localMessages, inputText, isSending, lastError,
                   showRestrictedPopup, sentMessageIds, pending, thread, sendLog>>
    /\ UNCHANGED <<serverVars, apiVars, polls, pollSeq, rtVars, getVars>>

(***************************************************************************)
(* Realtime client: subscribeToMessages / subscribeToConversations         *)
(***************************************************************************)
\* Cap of the channels created in one run of the model.
MaxChannels == 2

NoReceived == [messages |-> {}, conversations |-> {}]

\* supabase.channel(`messages:${conversationId}`).on('postgres_changes',
\*   { event: 'INSERT', table: 'messages', filter: `conversationId=eq.${...}` })
MessagesChannel(id, conversationId) ==
    [id |-> id, table |-> "messages", event |-> "INSERT",
     filter |-> conversationId, pageIds |-> {}]

\* supabase.channel('conversations:all').on('postgres_changes',
\*   { event: '*', table: 'conversations' }) with the callback's pageIds
ConversationsChannel(id, pageIds) ==
    [id |-> id, table |-> "conversations", event |-> "*",
     filter |-> Null, pageIds |-> pageIds]

\* Variant: removeChannel leaves the channel registered.
RemoveChannel_Keep(chs, ref) == chs

\* supabase.removeChannel(ref) when the module variable holds a channel.
RemoveChannel(chs, ref) == { ch \in chs : ch.id # ref }

\* The server side of a messages channel: event type and row filter.
ServerSends(ch, change) ==
    /\ ch.table = "messages"
    /\ change.eventType = ch.event
    /\ change.row.conversationId = ch.filter

\* Variant: the callback passes every conversation on.
ClientAccepts_AnyPage(ch, change) ==
    ch.table = "conversations"

\* The callback of a conversations channel: pageIds.includes(conv.pageId).
ClientAccepts(ch, change) ==
    ch.table = "conversations" /\ change.row.pageId \in ch.pageIds

\* onMessage(payload.new)
OnMessage(ch, change) == [channel |-> ch.id, data |-> change.row]

\* onUpdate({ type: payload.eventType, data: payload.new || payload.old })
OnUpdate(ch, change) == [channel |-> ch.id, type |-> change.eventType, data |-> change.row]

SubscribeToMessages(conversationId) ==
    /\ chanSeq < MaxChannels
    /\ channels' = RemoveChannel(channels, messagesChannel)
                       \cup {MessagesChannel(chanSeq + 1, conversationId)}
    /\ messagesChannel' = chanSeq + 1
    /\ chanSeq' = chanSeq + 1
    /\ UNCHANGED <<conversationsChannel, received, wal>>
    /\ UNCHANGED <<serverVars, chatVars, apiVars, pollVars, getVars>>

SubscribeToConversations(pageIds) ==
    /\ chanSeq < MaxChannels
    /\ channels' = RemoveChannel(channels, conversationsChannel)
                       \cup {ConversationsChannel(chanSeq + 1, pageIds)}
    /\ conversationsChannel' = chanSeq + 1
    /\ chanSeq' = chanSeq + 1
    /\ UNCHANGED <<messagesChannel, received, wal>>
    /\ UNCHANGED <<serverVars, chatVars, apiVars, pollVars, getVars>>

UnsubscribeAll ==
    /\ messagesChannel # 0 \/ conversationsChannel # 0
    /\ channels' = RemoveChannel(RemoveChannel(channels, messagesChannel),
                                 conversationsChannel)
    /\ messagesChannel' = 0
    /\ conversationsChannel' = 0
    /\ UNCHANGED <<chanSeq, received, wal>>
    /\ UNCHANGED <<serverVars, chatVars, apiVars, pollVars, getVars>>

\* The oldest committed write is pushed: each registered channel's callback
\* runs for the changes that pass the channel's filter.
Deliver ==
    /\ wal # <<>>
    /\ LET commit == Head(wal) IN
       received' =
          [messages |-> received.messages \cup
               { OnMessage(ch, chg) : <<ch, chg>> \in
                   { x \in channels \X commit.messages : ServerSends(x[1], x[2]) } },
           conversations |-> received.conversations \cup
               { OnUpdate(ch, chg) : <<ch, chg>> \in
                   { x \in channels \X commit.conversations : ClientAccepts(x[1], x[2]) } }]
    /\ wal' = Tail(wal)
    /\ UNCHANGED <<channels, messagesChannel, conversationsChannel, chanSeq>>
    /\ UNCHANGED <<serverVars, chatVars, apiVars, pollVars, getVars>>

(***************************************************************************)
(* Webhook router: the verification handshake (GET /)                      *)
(***************************************************************************)
\* A query parameter or an environment variable: absent, or a string.
Absent == [present |-> FALSE, value |-> ""]
Param(v) == [present |-> TRUE, value |-> v]

NoGet == [asked |-> FALSE, mode |-> Absent, token |-> Absent, challenge |-> Absent,
          res |-> NoResponse]

\* process.env.FB_VERIFY_TOKEN || 'my_secret_123': unset and empty both
\* give the default.
VerifyToken(env) ==
    IF env.present /\ env.value # "" THEN env.value ELSE "my_secret_123"

\* Variant: the token alone decides, whatever hub.mode says.
Verified_AnyMode(mode, token) ==
    token.present /\ token.value = VERIFY_TOKEN

\* mode === 'subscribe' && token === VERIFY_TOKEN
Verified(mode, token) ==
    /\ mode.present /\ mode.value = "subscribe"
    /\ token.present /\ token.value = VERIFY_TOKEN

\* res.status(200).send(challenge) / res.status(403).send('Verification failed');
\* send(undefined) sends an empty body.
VerifyResponse(mode, token, challenge) ==
    IF Verified(mode, token)
    THEN [status |-> 200, text |-> challenge.value]
    ELSE [status |-> 403, text |-> "Verification failed"]

\* router.get('/')
GetWebhook(mode, token, challenge) ==
    /\ get' = [asked |-> TRUE, mode |-> mode, token |-> token, challenge |-> challenge,
               res |-> VerifyResponse(mode, token, challenge)]
    /\ UNCHANGED VERIFY_TOKEN
    /\ UNCHANGED <<serverVars, chatVars, apiVars, pollVars, rtVars>>

\* The router module loaded under the environment env.
GetInit(env) ==
    /\ VERIFY_TOKEN = VerifyToken(env)
    /\ get = NoGet

(***************************************************************************)
(* Specifications                                                          *)
(***************************************************************************)
ServerInitOver(convs) ==
    /\ conversations = convs
    /\ messages = EmptyTable
    /\ pc = [r \in Requests |-> "idle"]
    /\ body = [r \in Requests |-> NoBody]
    /\ idx = [r \in Requests |-> 0]
    /\ existingConv = [r \in Requests |-> Null]
    /\ res = [r \in Requests |-> NoResponse]
    /\ failed = [r \in Requests |-> FALSE]
    /\ logged = [r \in Requests |-> FALSE]
    /\ snap = [r \in Requests |-> NoSnap]
    /\ api = NoApi
    /\ msgSeq = 0
    /\ channels = {}
    /\ messagesChannel = 0
    /\ conversationsChannel = 0
    /\ chanSeq = 0
    /\ received = NoReceived
    /\ wal = <<>>

\* The server over an empty store.
ServerInit == ServerInitOver(EmptyTable)

\* The window as first rendered at time now on a conversation whose last
\* message is of instant 0: the memo is computed by that render (renderedAt).
Chat(open, now, connected) ==
    [open |-> open, conversationId |-> "p1_c1", customerId |-> "c1", pageId |-> "p1",
     lastTimestamp |-> ToISOString(0), now |-> now, renderedAt |-> now,
     isWindowExpired |-> IsWindowExpired(now, Millis(ToISOString(0))),
     pageConnected |-> connected]

ChatInit(c) ==
    /\ chat = c
    /\ localMessages = EmptyTable
    /\ inputText = ""
    /\ isSending = FALSE
    /\ lastError = NoError
    /\ showRestrictedPopup = FALSE
    /\ sentMessageIds = {}
    /\ pending = NoSend
    /\ thread = EmptyTable
    /\ sendLog = <<>>
    /\ effect = NoEffect
    /\ polls = {}
    /\ pollSeq = 0

\* The server with no chat window open.
Init == ServerInit /\ ChatInit(Chat(FALSE, 0, FALSE)) /\ GetInit(Absent)

\* The webhook router over a store whose calls all succeed.
Next ==
    \/ \E r \in Requests, b \in Bodies : Post(r, b)
    \/ \E r \in Requests : Dispatch(r)
    \/ \E r \in Requests : SelectConversation(r, TRUE)
    \/ \E r \in Requests : WriteConversation(r, TRUE)
    \/ \E r \in Requests : InsertMessage(r, TRUE)
    \/ \E r \in Requests : ApplyDelivery(r, TRUE)
    \/ \E r \in Requests : ApplyRead(r, TRUE)
    \/ \E r \in Requests : Finish(r)

Spec == Init /\ [][Next]_vars

\* Bodies sent to the router over a faulty store: one of each kind.
FaultyBodies ==
    { Body("page", <<Entry(TRUE, <<e>>)>>) :
        e \in { MessageEvent("m1", "c1", "p1", "Hi", 999),
                MessageEvent("m3", "c2", "p1", "Hi", 1000),
                MessageEvent("m4", "c1", "p1", "", 1000),
                DeliveryEvent("c1", "p1", {"m1"}),
                ReadEvent("c1", "p1", 1000) } }
        \cup { Body("page", <<Entry(FALSE, <<>>)>>), Body("user", <<>>) }

\* The same router over a store whose calls may each return an error.
NextFaulty ==
    \/ \E r \in Requests, b \in FaultyBodies : Post(r, b)
    \/ \E r \in Requests : Dispatch(r)
    \/ \E r \in Requests, ok \in BOOLEAN : SelectConversation(r, ok)
    \/ \E r \in Requests, ok \in BOOLEAN : WriteConversation(r, ok)
    \/ \E r \in Requests, ok \in BOOLEAN : InsertMessage(r, ok)
    \/ \E r \in Requests, ok \in BOOLEAN : ApplyDelivery(r, ok)
    \/ \E r \in Requests, ok \in BOOLEAN : ApplyRead(r, ok)
    \/ \E r \in Requests : Finish(r)

SpecFaulty == Init /\ [][NextFaulty]_vars

\* One open chat window: the conversation's last message is an hour, a day
\* or just over a day old, its page connected or not.
InitChat ==
    /\ ServerInit
    /\ GetInit(Absent)
    /\ \E now \in ChatClock : \E connected \in BOOLEAN :
          ChatInit(Chat(TRUE, now, connected))

NextChat ==
    \/ \E t \in ChatClock : Tick(t)
    \/ \E text \in TypedTexts : TypeInput(text)
    \/ \E forcedText \in {""} \cup ApprovedUrls : HandleSend(forcedText)
    \/ PlatformAccepts
    \/ \E withId \in BOOLEAN : SendSucceeds(withId)
    \/ \E windowError \in BOOLEAN : SendFails(windowError)
    \/ SyncThread
    \/ DismissError
    \/ ClosePopup

SpecChat == InitChat /\ [][NextChat]_vars

\* The send path alone; the promise of sendPageMessage settles: a request
\* in flight is in time accepted or refused, and an accepted one answered.
NextSend ==
    \/ \E text \in {"", "Hi"} : TypeInput(text)
    \/ \E forcedText \in {""} \cup ApprovedUrls : HandleSend(forcedText)
    \/ PlatformAccepts
    \/ \E withId \in BOOLEAN : SendSucceeds(withId)
    \/ \E windowError \in BOOLEAN : SendFails(windowError)
    \/ DismissError

SpecSend ==
    /\ InitChat
    /\ [][NextSend]_vars
    /\ WF_vars(PlatformAccepts \/ \E windowError \in BOOLEAN : SendFails(windowError))
    /\ WF_vars(\E withId \in BOOLEAN : SendSucceeds(withId))

\* One handler activation at a time, fed two-entry payloads; every store
\* call may fail.
NextBatch ==
    \/ \E b \in BatchBodies : Post("w1", b)
    \/ Dispatch("w1")
    \/ \E ok \in BOOLEAN : SelectConversation("w1", ok)
    \/ \E ok \in BOOLEAN : WriteConversation("w1", ok)
    \/ \E ok \in BOOLEAN : InsertMessage("w1", ok)
    \/ \E ok \in BOOLEAN : ApplyDelivery("w1", ok)
    \/ \E ok \in BOOLEAN : ApplyRead("w1", ok)
    \/ Finish("w1")

SpecBatch == Init /\ [][NextBatch]_vars

\* Time of the API server's clock at a send.
ApiClock == {1002}

\* What the webhook delivers while the agent works: a customer's message
\* and the two kinds of receipt.
ApiBodies ==
    { Body("page", <<Entry(TRUE, <<e>>)>>) :
        e \in { MessageEvent("m1", "c1", "p1", "Hi", 999),
                DeliveryEvent("c1", "p1", {"m1"}),
                ReadEvent("c1", "p1", 1000) } }

\* The agent API next to one webhook activation; the API's store calls may
\* fail.
NextApi ==
    \/ \E b \in ApiBodies : Post("w1", b)
    \/ Dispatch("w1")
    \/ SelectConversation("w1", TRUE)
    \/ WriteConversation("w1", TRUE)
    \/ InsertMessage("w1", TRUE)
    \/ ApplyDelivery("w1", TRUE)
    \/ ApplyRead("w1", TRUE)
    \/ Finish("w1")
    \/ \E c \in {"p1_c1", "p1_c9", Null} : \E text \in {"Re", ""} :
          \E a \in {"a1"} : \E now \in ApiClock :
             SendMessageRequest(c, text, a, now)
    \/ \E ok \in BOOLEAN : SendMessageInsert(ok)
    \/ \E ok \in BOOLEAN : SendMessageUpdate(ok)
    \/ \E c \in {"p1_c1", "p1_c9"} : \E u \in Patches : PatchRequest(c, u)
    \/ \E ok \in BOOLEAN : PatchApply(ok)
    \/ ApiFinish

SpecApi == Init /\ [][NextApi]_vars

\* A chat window just rendered on a conversation whose thread holds two
\* messages that the local view does not have yet; its effect has not run.
InitPoll ==
    /\ ServerInit
    /\ \E connected \in BOOLEAN : chat = Chat(TRUE, HourMs, connected)
    /\ localMessages = EmptyTable
    /\ inputText = ""
    /\ isSending = FALSE
    /\ lastError = NoError
    /\ showRestrictedPopup = FALSE
    /\ sentMessageIds = {}
    /\ pending = NoSend
    /\ thread = PolledThread
    /\ sendLog = <<>>
    /\ effect = NoEffect
    /\ polls = {}
    /\ pollSeq = 0
    /\ GetInit(Absent)

NextPoll ==
    \/ RunEffect
    \/ IntervalFires
    \/ \E p \in polls : FetchReturns(p)
    \/ \E p \in polls : FetchFails(p)
    \/ \E p \in polls : AddPolled(p)
    \/ CloseChat

SpecPoll == InitPoll /\ [][NextPoll]_vars

\* What the platform delivers while a client is subscribed: messages on
\* two pages and a delivery receipt.
RealtimeBodies ==
    { Body("page", <<Entry(TRUE, <<e>>)>>) :
        e \in { MessageEvent("m1", "c1", "p1", "Hi", 999),
                MessageEvent("m5", "c1", "p2", "Hi", 1000),
                DeliveryEvent("c1", "p1", {"m1"}) } }

\* One webhook activation writing while a client subscribes, unsubscribes
\* and receives pushes; a request arrives once the earlier pushes are out.
NextRealtime ==
    \/ \E b \in RealtimeBodies : wal = <<>> /\ Post("w1", b)
    \/ Dispatch("w1")
    \/ SelectConversation("w1", TRUE)
    \/ WriteConversation("w1", TRUE)
    \/ InsertMessage("w1", TRUE)
    \/ ApplyDelivery("w1", TRUE)
    \/ Finish("w1")
    \/ \E c \in {"p1_c1", "p2_c1"} : SubscribeToMessages(c)
    \/ \E pageIds \in {{"p1"}} : SubscribeToConversations(pageIds)
    \/ UnsubscribeAll
    \/ Deliver

SpecRealtime == Init /\ [][NextRealtime]_vars

\* Environments the router is started under, and the verification requests
\* sent to it.
Envs == {Absent, Param(""), Param("s3cret")}
Modes == {Absent, Param("subscribe"), Param("unsubscribe"), Param("SUBSCRIBE")}
Tokens == {Absent, Param(""), Param("my_secret_123"), Param("s3cret"), Param("wrong")}
Challenges == {Absent, Param("test"), Param("1158201444")}

InitVerify ==
    /\ ServerInit
    /\ ChatInit(Chat(FALSE, 0, FALSE))
    /\ \E env \in Envs : GetInit(env)

NextVerify ==
    \E mode \in Modes, token \in Tokens, challenge \in Challenges :
        GetWebhook(mode, token, challenge)

SpecVerify == InitVerify /\ [][NextVerify]_vars

\* Deliveries that name a stored message again: the first delivery of m1,
\* a redelivery of the id m1 carrying another text and time, and the two
\* kinds of receipt.
RedeliveryBodies ==
    { Body("page", <<Entry(TRUE, <<e>>)>>) :
        e \in { MessageEvent("m1", "c1", "p1", "Hi", 999),
                MessageEvent("m1", "c1", "p1", "Yo", 1001),
                DeliveryEvent("c1", "p1", {"m1"}),
                ReadEvent("c1", "p1", 1000) } }

\* Every operation that touches stored rows: one webhook activation, the
\* send-message route and the conversation update route.
NextRedelivery ==
    \/ \E b \in RedeliveryBodies : Post("w1", b)
    \/ Dispatch("w1")
    \/ SelectConversation("w1", TRUE)
    \/ WriteConversation("w1", TRUE)
    \/ InsertMessage("w1", TRUE)
    \/ ApplyDelivery("w1", TRUE)
    \/ ApplyRead("w1", TRUE)
    \/ Finish("w1")
    \/ \E now \in ApiClock : SendMessageRequest("p1_c1", "Re", "a1", now)
    \/ SendMessageInsert(TRUE)
    \/ SendMessageUpdate(TRUE)
    \/ PatchRequest("p1_c1", [status |-> "RESOLVED"])
    \/ PatchApply(TRUE)
    \/ ApiFinish

SpecRedelivery == Init /\ [][NextRedelivery]_vars

\* A conversation of customer c1 on page p1 that the store holds under an
\* id of its own (a row written before this router's id scheme).
LegacyConversation ==
    [NewConversation(MessageEvent("m0", "c1", "p1", "Old", 0)) EXCEPT
        !.id = "t_1", !.unreadCount = 0]

LegacyBodies ==
    { Body("page", <<Entry(TRUE, <<e>>)>>) :
        e \in { MessageEvent("m1", "c1", "p1", "Hi", 999),
                MessageEvent("m2", "c1", "p1", "Yo", 1001),
                MessageEvent("m3", "c2", "p1", "Hi", 1000) } }

\* The store as the router finds it: empty, or holding the legacy row.
InitLegacy ==
    /\ \E convs \in {EmptyTable, Upsert(EmptyTable, LegacyConversation)} :
          ServerInitOver(convs)
    /\ ChatInit(Chat(FALSE, 0, FALSE))
    /\ GetInit(Absent)

\* One webhook activation at a time; the lookup may return an error.
NextLegacy ==
    \/ \E b \in LegacyBodies : Post("w1", b)
    \/ Dispatch("w1")
    \/ \E ok \in BOOLEAN : SelectConversation("w1", ok)
    \/ WriteConversation("w1", TRUE)
    \/ InsertMessage("w1", TRUE)
    \/ Finish("w1")

SpecLegacy == InitLegacy /\ [][NextLegacy]_vars

\* Ids as the route takes them from the payload: any string.  Two pairs
\* whose ids hold the separator, and a pair of plain ids.
IdentityBodies ==
    { Body("page", <<Entry(TRUE, <<e>>)>>) :
        e \in { MessageEvent("m1", "2_3", "1", "Hi", 999),
                MessageEvent("m2", "3", "1_2", "Yo", 1001),
                MessageEvent("m3", "3", "1", "Hi", 1000) } }

\* One webhook activation at a time over a store whose calls succeed.
NextIdentity ==
    \/ \E b \in IdentityBodies : Post("w1", b)
    \/ Dispatch("w1")
    \/ SelectConversation("w1", TRUE)
    \/ WriteConversation("w1", TRUE)
    \/ InsertMessage("w1", TRUE)
    \/ Finish("w1")

SpecIdentity == Init /\ [][NextIdentity]_vars

\* What the platform delivers while an agent triages: two messages of one
\* customer and the two kinds of receipt.
TriageBodies ==
    { Body("page", <<Entry(TRUE, <<e>>)>>) :
        e \in { MessageEvent("m1", "c1", "p1", "Hi", 999),
                MessageEvent("m2", "c1", "p1", "Yo", 1001),
                DeliveryEvent("c1", "p1", {"m1"}),
                ReadEvent("c1", "p1", 1000) } }

\* Two webhook activations (the cluster's two instances) running against
\* an agent's status updates of the customer's conversation.
NextTriage ==
    \/ \E r \in Requests : \E b \in TriageBodies : Post(r, b)
    \/ \E r \in Requests : Dispatch(r)
    \/ \E r \in Requests : SelectConversation(r, TRUE)
    \/ \E r \in Requests : WriteConversation(r, TRUE)
    \/ \E r \in Requests : InsertMessage(r, TRUE)
    \/ \E r \in Requests : ApplyDelivery(r, TRUE)
    \/ \E r \in Requests : ApplyRead(r, TRUE)
    \/ \E r \in Requests : Finish(r)
    \/ \E u \in { q \in Patches : q.status \in Statuses } : PatchRequest("p1_c1", u)
    \/ PatchApply(TRUE)
    \/ ApiFinish

SpecTriage == Init /\ [][NextTriage]_vars

\* Bodies of PATCH /conversations/:id as any client may send them: the
\* status menu's values, a value outside the enum, and JSON null.
AnyPatches == Patches \cup { [status |-> Null] }

\* One webhook activation next to update requests with any body.
NextStatus ==
    \/ \E b \in TriageBodies : Post("w1", b)
    \/ Dispatch("w1")
    \/ SelectConversation("w1", TRUE)
    \/ WriteConversation("w1", TRUE)
    \/ InsertMessage("w1", TRUE)
    \/ ApplyDelivery("w1", TRUE)
    \/ ApplyRead("w1", TRUE)
    \/ Finish("w1")
    \/ \E c \in {"p1_c1", "p1_c9"} : \E u \in AnyPatches : PatchRequest(c, u)
    \/ \E ok \in BOOLEAN : PatchApply(ok)
    \/ ApiFinish

SpecStatus == Init /\ [][NextStatus]_vars

\* One webhook activation whose conversation write may return an error,
\* next to send-message requests for a stored and for an unknown
\* conversation.
NextReference ==
    \/ \E b \in TriageBodies : Post("w1", b)
    \/ Dispatch("w1")
    \/ SelectConversation("w1", TRUE)
    \/ \E ok \in BOOLEAN : WriteConversation("w1", ok)
    \/ InsertMessage("w1", TRUE)
    \/ ApplyDelivery("w1", TRUE)
    \/ ApplyRead("w1", TRUE)
    \/ Finish("w1")
    \/ \E c \in {"p1_c1", "p1_c9"} : \E now \in ApiClock :
          SendMessageRequest(c, "Re", "a1", now)
    \/ SendMessageInsert(TRUE)
    \/ SendMessageUpdate(TRUE)
    \/ ApiFinish

SpecReference == Init /\ [][NextReference]_vars

(***************************************************************************)
(* Properties of the webhook router                                        *)
(***************************************************************************)
\* The event of a request whose body is one entry that reaches a handler.
Handles(r, kind) ==
    /\ body[r].object = "page"
    /\ Len(body[r].entry) = 1
    /\ Route(body[r].entry[1]) = kind

EventOf(r) == body[r].entry[1].messaging[1]

\* Request r has run to its end with no other request overlapping it.
DoneSolo(r) == pc[r] = "done" /\ snap[r].solo

InboundOf(msgs, conversationId) ==
    { id \in Ids(msgs) : msgs[id].conversationId = conversationId /\ msgs[id].isIncoming }

\* The replayed event's message row was stored when the request arrived.
IsReplay(r) ==
    /\ Handles(r, "select")
    /\ EventOf(r).mid \in Ids(snap[r].messages)
    /\ snap[r].messages[EventOf(r).mid].senderId = EventOf(r).sender
    /\ snap[r].messages[EventOf(r).mid].conversationId
          \in ConversationsOf(snap[r].conversations, EventOf(r).sender, EventOf(r).recipient)

\* C1: processing an inbound text-message event whose message is already
\* stored (a redelivery of the same mid, sender and page) leaves the store
\* as it was: no second row, no further unread increment.
C1_ReplayLeavesStoreUnchanged ==
    \A r \in Requests :
        (DoneSolo(r) /\ IsReplay(r)) =>
            /\ conversations = snap[r].conversations
            /\ messages = snap[r].messages

\* A first-contact message request that ran to its end: its existence check
\* found no conversation and none of its store calls errored.
FirstContactDone(r) ==
    /\ pc[r] = "done"
    /\ Handles(r, "select")
    /\ existingConv[r] = Null
    /\ ~failed[r]

\* C2: two concurrent first-contact events of one {page, customer} pair end
\* with exactly one conversation row for the pair, and the message of each
\* is stored under that one conversation.
C2_IdentityConvergence ==
    \A r1 \in Requests : \A r2 \in Requests \ {r1} :
        (/\ FirstContactDone(r1)
         /\ FirstContactDone(r2)
         /\ EventOf(r1).sender = EventOf(r2).sender
         /\ EventOf(r1).recipient = EventOf(r2).recipient) =>
            LET rows == ConversationsOf(conversations, EventOf(r1).sender,
                                        EventOf(r1).recipient)
            IN  /\ Cardinality(rows) = 1
                /\ \A r \in {r1, r2} :
                      /\ EventOf(r).mid \in Ids(messages)
                      /\ messages[EventOf(r).mid].conversationId \in rows

C2_Witness ==
    \E r1 \in Requests : \E r2 \in Requests \ {r1} :
        /\ FirstContactDone(r1)
        /\ FirstContactDone(r2)
        /\ EventOf(r1).sender = EventOf(r2).sender
        /\ EventOf(r1).recipient = EventOf(r2).recipient
        /\ EventOf(r1).mid # EventOf(r2).mid
        /\ {EventOf(r1).mid, EventOf(r2).mid} \subseteq Ids(messages)

\* No request is inside a handler.
Quiescent == \A r \in Requests : pc[r] \in {"idle", "done"}

\* C3: with no read reset, whenever no delivery is being processed each
\* conversation's unread counter equals the number of inbound message rows
\* stored for it.
C3_UnreadCountsInboundMessages ==
    Quiescent =>
        \A c \in Ids(conversations) :
            conversations[c].unreadCount = Cardinality(InboundOf(messages, c))

\* C4: on a store with no conversation for {p, c}, one inbound text message
\* m creates conversation p_c (OPEN, unassigned, unread 1) and the message
\* row m: in that conversation, incoming, not read.
C4_FirstContactCreates ==
    \A r \in Requests :
        (/\ DoneSolo(r)
         /\ Handles(r, "select")
         /\ ConversationsOf(snap[r].conversations, EventOf(r).sender,
                            EventOf(r).recipient) = {}
         /\ EventOf(r).mid \notin Ids(snap[r].messages)) =>
            LET ev == EventOf(r)
                id == ev.recipient \o "_" \o ev.sender
            IN  /\ Ids(conversations) = Ids(snap[r].conversations) \cup {id}
                /\ conversations[id].status = "OPEN"
                /\ conversations[id].assignedAgentId = Null
                /\ conversations[id].unreadCount = 1
                /\ conversations[id].pageId = ev.recipient
                /\ conversations[id].customerId = ev.sender
                /\ Ids(messages) = Ids(snap[r].messages) \cup {ev.mid}
                /\ messages[ev.mid].conversationId = id
                /\ messages[ev.mid].isIncoming
                /\ ~messages[ev.mid].isRead
                /\ messages[ev.mid].text = ev.text

C4_Witness ==
    \E r \in Requests :
        /\ DoneSolo(r)
        /\ Handles(r, "select")
        /\ EventOf(r).mid = "m1"
        /\ snap[r].conversations = EmptyTable
        /\ "p1_c1" \in Ids(conversations)
        /\ "m1" \in Ids(messages)

\* Request r takes its delivery-receipt / read-receipt store step.
DeliveryStep(r) == pc[r] = "delivery" /\ pc'[r] # "delivery"
ReadStep(r) == pc[r] = "read" /\ pc'[r] # "read"

\* C7: a delivery receipt sets isRead on the stored messages named in its
\* id list and changes nothing else; ids naming no stored message are
\* ignored with no error and no change.
C7_DeliveryReceipt ==
    [][\A r \in Requests :
          DeliveryStep(r) =>
             LET mids == CurrentEvent(r).mids IN
             /\ Ids(messages') = Ids(messages)
             /\ \A id \in Ids(messages) :
                   messages'[id] = IF id \in mids
                                   THEN [messages[id] EXCEPT !.isRead = TRUE]
                                   ELSE messages[id]
             /\ conversations' = conversations
             /\ failed'[r] = failed[r]
             /\ (mids \cap Ids(messages) = {} => messages' = messages)]_vars

C7_Witness ==
    \E r1 \in Requests : \E r2 \in Requests \ {r1} :
        /\ pc[r1] = "done" /\ Handles(r1, "delivery") /\ EventOf(r1).mids = {"m1"}
        /\ pc[r2] = "done" /\ Handles(r2, "delivery") /\ EventOf(r2).mids = {"zzz"}
        /\ "m1" \in Ids(messages) /\ messages["m1"].isRead
        /\ \E id \in Ids(messages) : ~messages[id].isRead

\* The conversations a receipt from this sender to this page is about.
AffectedBy(ev) == ConversationsOf(conversations, ev.sender, ev.recipient)

\* C8: a read receipt with watermark w marks read every message of the
\* affected conversation with timestamp <= w (equality included) and
\* leaves the later messages of that conversation as they were.
C8_ReadReceiptInclusive ==
    [][\A r \in Requests :
          ReadStep(r) =>
             LET ev == CurrentEvent(r) IN
             /\ Ids(messages') = Ids(messages)
             /\ \A id \in Ids(messages) :
                   messages[id].conversationId \in AffectedBy(ev) =>
                      IF Millis(messages[id].timestamp) <= ev.watermark
                      THEN messages'[id] = [messages[id] EXCEPT !.isRead = TRUE]
                      ELSE messages'[id] = messages[id]]_vars

C8_Witness ==
    \E r \in Requests :
        /\ pc[r] = "done" /\ Handles(r, "read") /\ EventOf(r).watermark = 999
        /\ {"m1", "m2"} \subseteq Ids(messages)
        /\ Millis(messages["m1"].timestamp) = 999
        /\ messages["m1"].isRead
        /\ ~messages["m2"].isRead

\* C9: a read receipt of one conversation leaves the read flag of every
\* message of any other conversation unchanged.
C9_ReadReceiptFrame ==
    [][\A r \in Requests :
          ReadStep(r) =>
             \A id \in Ids(messages) :
                messages[id].conversationId \notin AffectedBy(CurrentEvent(r)) =>
                   messages'[id].isRead = messages[id].isRead]_vars

\* C10: from the moment a POST is being processed, before any store call
\* and after every outcome, its response is the 200 acknowledgment.
C10_AckBeforeProcessing ==
    \A r \in Requests :
        pc[r] \in {"loop", "select", "write", "insert", "delivery", "read", "done"} =>
            res[r] = [status |-> 200, text |-> "EVENT_RECEIVED"]

C10_Witness ==
    \E r1 \in Requests : \E r2 \in Requests \ {r1} :
        /\ pc[r1] = "done" /\ failed[r1] /\ res[r1].status = 200
        /\ pc[r2] = "done" /\ body[r2].object = "page"
        /\ ~body[r2].entry[1].hasMessaging /\ res[r2].status = 200

\* The body of request r is one message event that carries no text.
IsNonText(r) ==
    /\ body[r].object = "page"
    /\ Len(body[r].entry) = 1
    /\ body[r].entry[1].hasMessaging
    /\ EventOf(r).kind = "message"
    /\ EventOf(r).hasSender /\ EventOf(r).hasRecipient
    /\ EventOf(r).text = ""

\* C13: a request carrying a message event without text ends with both
\* tables as they were when it arrived: no conversation created or updated
\* (unread counter included), no message inserted.
C13_NonTextDropped ==
    \A r \in Requests :
        (DoneSolo(r) /\ IsNonText(r)) =>
            /\ conversations = snap[r].conversations
            /\ messages = snap[r].messages

\* A non-text message from c1 was dropped while c1's conversation existed.
C13_Witness ==
    \E r \in Requests :
        /\ DoneSolo(r) /\ IsNonText(r)
        /\ ConversationsOf(conversations, EventOf(r).sender, EventOf(r).recipient) # {}

InsertStep(r) == pc[r] = "insert" /\ pc'[r] # "insert"

\* C14: no two rows of the message table carry the same id, and the insert
\* of a message whose id is already stored leaves the message table as it
\* was (no second row, every field of the stored row kept).
C14_DuplicateInsertIsNoOp ==
    [][/\ \A a, b \in Ids(messages') :
             messages'[a].id = messages'[b].id => a = b
       /\ \A r \in Requests :
             (InsertStep(r) /\ CurrentEvent(r).mid \in Ids(messages))
                 => messages' = messages]_vars

\* A message already marked read was delivered again and is still read.
C14_Witness ==
    \E r \in Requests :
        /\ DoneSolo(r) /\ Handles(r, "select") /\ ~failed[r]
        /\ EventOf(r).mid \in Ids(snap[r].messages)
        /\ snap[r].messages[EventOf(r).mid].isRead
        /\ messages[EventOf(r).mid].isRead

(***************************************************************************)
(* Properties of the chat window                                           *)
(***************************************************************************)
\* C5: a send never shows two bubbles: the temp-id entry and the
\* platform-id entry of one send are never both in the chat's view.
C5_NoDoubleBubble ==
    \A n \in 1..Len(sendLog) :
        ~(TempId(n) \in ChatMessages /\ PlatformId(n) \in ChatMessages)

\* C6: when the send request fails, its optimistic entry is out of the
\* view and the failure is surfaced in lastError.
C6_FailureRetractsOptimisticEntry ==
    [][\A n \in 1..Len(sendLog) :
          (sendLog[n] = "pending" /\ sendLog'[n] = "failed") =>
             /\ TempId(n) \notin { id \in Ids(localMessages') :
                                     localMessages'[id].conversationId = chat.conversationId }
             /\ lastError' # NoError]_vars

(***************************************************************************)
(* Properties of batched payloads                                          *)
(***************************************************************************)
\* The entry dispatches into a handler's store call.
WellFormed(entry) == Route(entry) \in {"select", "delivery", "read"}

\* The shapes a decoder has to reject: no messaging list, an empty one, a
\* sub-event without sender or recipient, a sub-event of unknown kind.
Malformed(entry) ==
    \/ ~entry.hasMessaging
    \/ entry.messaging = <<>>
    \/ ~entry.messaging[1].hasSender
    \/ ~entry.messaging[1].hasRecipient
    \/ entry.messaging[1].kind \notin {"message", "delivery", "read"}

\* C11: when a request has ended, no well-formed entry of its payload is
\* left behind the point the for-loop reached: every well-formed entry that
\* follows a failing or malformed entry has been dispatched to its handler.
C11_LaterEntriesProcessed ==
    \A r \in Requests :
        (pc[r] = "done" /\ body[r].object = "page") =>
            \A i \in 1..Len(body[r].entry) :
                i > idx[r] => ~WellFormed(body[r].entry[i])

\* C12: the step of the for-loop that meets a malformed entry writes nothing
\* to the store, enters no handler, and ends in the loop or in the normal
\* return of the route handler (no exception leaves it).
C12_MalformedEntryIsInert ==
    [][\A r \in Requests :
          (/\ pc[r] = "loop"
           /\ idx[r] <= Len(body[r].entry)
           /\ Malformed(body[r].entry[idx[r]])
           /\ <<pc[r], idx[r]>>' # <<pc[r], idx[r]>>)
          => /\ conversations' = conversations
             /\ messages' = messages
             /\ pc'[r] \in {"loop", "done"}]_vars

\* A malformed entry has thrown into the catch while the store holds rows.
C12_Witness ==
    \E r \in Requests :
        /\ pc[r] = "done"
        /\ idx[r] <= Len(body[r].entry)
        /\ Route(body[r].entry[idx[r]]) = "throw"
        /\ Ids(messages) # {}

(***************************************************************************)
(* Properties of the agent API                                             *)
(***************************************************************************)
\* Row b is row a with, at most, the named fields changed.
SameExcept(a, b, fields) ==
    /\ DOMAIN a = DOMAIN b
    /\ \A f \in DOMAIN a \ fields : a[f] = b[f]

\* Every row of table t other than id is the same in table u.
OthersKept(t, u, id) ==
    /\ Ids(u) \ {id} = Ids(t) \ {id}
    /\ \A o \in Ids(t) \ {id} : u[o] = t[o]

\* C15: the insert of send-message adds exactly one message row, outbound
\* and read, of the given conversation, text and timestamp; its conversation
\* update sets lastMessage and lastTimestamp of that conversation to the
\* text and the message's timestamp and leaves everything else (unread
\* counter and status included) as it was.
C15_SendMessageRecords ==
    [][/\ (api.pc = "insert" /\ api'.pc = "update") =>
             /\ conversations' = conversations
             /\ api.messageId \notin Ids(messages)
             /\ api.messageId \in Ids(messages')
             /\ OthersKept(messages, messages', api.messageId)
             /\ LET row == messages'[api.messageId] IN
                  /\ row.conversationId = api.conversationId
                  /\ row.text = api.text
                  /\ row.timestamp = api.timestamp
                  /\ ~row.isIncoming
                  /\ row.isRead
       /\ (api.pc = "update" /\ api'.pc = "done" /\ ~api'.failed) =>
             /\ messages' = messages
             /\ api.conversationId \in Ids(conversations)
             /\ OthersKept(conversations, conversations', api.conversationId)
             /\ LET old == conversations[api.conversationId]
                    new == conversations'[api.conversationId] IN
                  /\ new.lastMessage = api.text
                  /\ new.lastTimestamp = api.timestamp
                  /\ SameExcept(old, new, {"lastMessage", "lastTimestamp"})]_vars

\* A send was recorded for a conversation that has unread messages.
C15_Witness ==
    /\ api.op = "send" /\ api.pc = "done" /\ api.status = 200 /\ ~api.failed
    /\ api.messageId \in Ids(messages)
    /\ conversations[api.conversationId].lastMessage = api.text
    /\ conversations[api.conversationId].unreadCount > 0

\* POST /send-message run from start to end against store, all store calls
\* answering: the n-th generated id, the insert, the conversation update.
RecordOutbound(store, conversationId, text, senderId, n, now) ==
    LET row == OutboundMessage(conversationId, text, senderId, MessageId(n),
                               ToISOString(now))
    IN  IF InsertRejected(store.messages, store.conversations, row) THEN store
        ELSE [messages |-> Insert(store.messages, store.conversations, row),
              conversations |-> SetLastMessage(store.conversations, conversationId,
                                               text, ToISOString(now))]

\* A second send-message with the same input (the next generated id).
SendIdempotent ==
    \A c \in Ids(conversations) : \A now \in ApiClock :
        LET once == RecordOutbound([messages |-> messages,
                                    conversations |-> conversations],
                                   c, "Re", "a1", msgSeq + 1, now)
        IN  RecordOutbound(once, c, "Re", "a1", msgSeq + 2, now) = once

DeliveryIdempotent ==
    \A mids \in SUBSET Ids(messages) :
        MarkDelivered(MarkDelivered(messages, mids), mids) = MarkDelivered(messages, mids)

ReadIdempotent ==
    \A watermark \in {999, 1000, 1002} :
        MarkReadUpTo(MarkReadUpTo(messages, watermark), watermark)
            = MarkReadUpTo(messages, watermark)

StatusIdempotent ==
    \A c \in Ids(conversations) : \A u \in Patches :
        ~UpdateRejected(conversations, c, u) =>
            UpdateConversation(UpdateConversation(conversations, c, u), c, u)
                = UpdateConversation(conversations, c, u)

\* C16: in every store the system reaches, each mutator (send-message,
\* delivery receipt, read receipt, status update) applied twice with the
\* same input leaves the store that one application leaves.
C16_MutatorsIdempotent ==
    /\ SendIdempotent
    /\ DeliveryIdempotent
    /\ ReadIdempotent
    /\ StatusIdempotent

PatchStep == api.pc = "patch" /\ api'.pc = "done"

ElapsedAtCheck == chat.renderedAt - Millis(chat.lastTimestamp)

SendInitiated == pending = NoSend /\ pending' # NoSend

C19_AdvisoryStaysSurfaced ==
    [][(SendInitiated /\ chat.isWindowExpired) => lastError'.isPolicy]_vars

(***************************************************************************)
(* Properties of ingestion next to the agent                               *)
(***************************************************************************)
\* The step is taken by a webhook activation (the API request stands still).
WebhookStep == api' = api /\ <<pc, idx>>' # <<pc, idx>>

\* C21: no step of the webhook router, whatever it is interleaved with,
\* changes the status or the assigned agent of a conversation that exists
\* when the step is taken.
C21_IngestionKeepsStatus ==
    [][WebhookStep =>
          \A c \in Ids(conversations) :
              /\ c \in Ids(conversations')
              /\ conversations'[c].status = conversations[c].status
              /\ conversations'[c].assignedAgentId
                    = conversations[c].assignedAgentId]_vars

(***************************************************************************)
(* Properties of the thread-sync effect                                    *)
(***************************************************************************)
PollStarted == pollSeq' # pollSeq

\* C22: a syncThread call reaches its fetch only when no earlier call of
\* the chat is still in flight.
C22_OnePollInFlight ==
    [][PollStarted => polls = {}]_vars

\* C23: once the chat is closed (the cleanup has run) no syncThread call
\* is started and the local view no longer changes.
C23_PollingStopsOnClose ==
    [][~chat.open => (~PollStarted /\ localMessages' = localMessages)]_vars

\* C24: while a chat is open no interval starts a thread fetch (a fetch
\* starts, if at all, with an effect run), and no fetched message is put
\* into the local view.
C24_NoPolling ==
    [][chat.open =>
          /\ effect' = effect => ~PollStarted
          /\ polls' # polls => localMessages' = localMessages]_vars

(***************************************************************************)
(* Properties of the realtime client                                       *)
(***************************************************************************)
Delivering == wal # <<>> /\ wal' = Tail(wal)

\* C25: when a committed write is pushed, every change it made to a message
\* of a conversation some channel is subscribed to, of whatever kind (insert,
\* update, delete), reaches that channel's callback with the resulting row.
\* (The event kind the claim also asks for is not demanded here.)
C25_EveryWriteNotified ==
    [][Delivering =>
          \A ch \in { c \in channels : c.table = "messages" } :
              \A chg \in { g \in Head(wal).messages : g.row.conversationId = ch.filter } :
                  \E n \in received'.messages :
                      n.channel = ch.id /\ n.data = chg.row]_vars

\* C26: the verification request is answered with 200 and the received
\* challenge exactly when hub.mode is 'subscribe' and hub.verify_token is the
\* configured token; every other request is answered with 403 and a body
\* that is not the challenge.
C26_VerificationHandshake ==
    get.asked =>
        IF /\ get.mode = Param("subscribe")
           /\ get.token = Param(VERIFY_TOKEN)
        THEN /\ get.res.status = 200
             /\ get.challenge.present => get.res.text = get.challenge.value
        ELSE /\ get.res.status = 403
             /\ get.challenge.present => get.res.text # get.challenge.value

C26_Witness ==
    /\ VERIFY_TOKEN = "s3cret"
    /\ get.asked
    /\ get.mode = Param("subscribe")
    /\ get.token = Param("s3cret")
    /\ get.challenge = Param("1158201444")
    /\ get.res = [status |-> 200, text |-> "1158201444"]

\* C27: once a message row exists, no step (redelivery, delivery receipt,
\* read receipt, outbound send, conversation update) changes its text, its
\* conversation reference, its sender, its timestamp or its direction.
C27_MessageBodyImmutable ==
    [][\A id \in Ids(messages) \cap Ids(messages') :
          \A f \in {"text", "conversationId", "senderId", "timestamp", "isIncoming"} :
              messages'[id][f] = messages[id][f]]_vars

\* m1 was marked read, an outbound message was stored, the conversation was
\* resolved, and a redelivery of m1 with another text has updated the
\* conversation: the row of m1 still has the first text.
C27_Witness ==
    /\ "m1" \in Ids(messages) /\ MessageId(1) \in Ids(messages)
    /\ messages["m1"].text = "Hi"
    /\ messages["m1"].isRead
    /\ conversations["p1_c1"].lastMessage = "Yo"
    /\ conversations["p1_c1"].status = "RESOLVED"

\* C28: no step of the webhook router removes a conversation row: the set of
\* conversation ids only grows under ingestion.
C28_ConversationsNeverDeleted ==
    [][Ids(conversations) \subseteq Ids(conversations')]_vars

\* Two conversations stand after messages of two customers, a second
\* message of the first and a receipt that marked m1 read.
C28_Witness ==
    /\ Ids(conversations) = {"p1_c1", "p1_c2"}
    /\ conversations["p1_c1"].unreadCount = 2
    /\ "m1" \in Ids(messages) /\ messages["m1"].isRead
    /\ "m3" \in Ids(messages)

\* C29: when a store call of a handler fails, the failure is logged and the
\* processing of that event ends there (the for-loop takes over again);
\* no store call is made a second time for the same delivery.
C29_FailureLoggedAndFinal ==
    [][\A r \in Requests :
          (failed'[r] /\ ~failed[r]) => (logged'[r] /\ pc'[r] = "loop")]_vars

\* C30: an inbound message is stored under the id of the conversation that
\* existed for its {page, customer} pair when the event arrived, whatever
\* that id is, and under the computed id pageId_customerId only when none
\* existed.
C30_StoredUnderExistingConversation ==
    [][\A r \in Requests :
          (InsertStep(r) /\ snap[r].solo /\ messages' # messages) =>
              LET ev == CurrentEvent(r)
                  before == ConversationsOf(snap[r].conversations, ev.sender, ev.recipient)
              IN  IF before # {}
                  THEN messages'[ev.mid].conversationId \in before
                  ELSE messages'[ev.mid].conversationId =
                           ConversationId(ev.recipient, ev.sender)]_vars

\* C31: in every reachable state the status of each conversation is one of
\* OPEN, PENDING, RESOLVED, whatever fields the update requests carried.
C31_StatusInEnum ==
    \A c \in Ids(conversations) : conversations[c].status \in Statuses

ActiveChannels == {messagesChannel, conversationsChannel} \ {0}

\* C32: at most one messages channel and one conversations channel are
\* registered, namely the ones the module variables hold (none after
\* unsubscribeAll), and a push invokes callbacks of those channels only:
\* never the callback of a subscription that was replaced or revoked.
C32_OneChannelPerKind ==
    /\ [](/\ Cardinality({ ch \in channels : ch.table = "messages" }) <= 1
          /\ Cardinality({ ch \in channels : ch.table = "conversations" }) <= 1
          /\ { ch.id : ch \in channels } = ActiveChannels)
    /\ [][\A n \in (received'.messages \cup received'.conversations)
                    \ (received.messages \cup received.conversations) :
             n.channel \in ActiveChannels]_vars

\* The first messages channel received a message, was replaced by a channel
\* for another conversation, and that one received a message of its own.
C32_Witness ==
    /\ channels = {MessagesChannel(2, "p2_c1")}
    /\ \E n \in received.messages : n.channel = 1 /\ n.data.conversationId = "p1_c1"
    /\ \E n \in received.messages : n.channel = 2 /\ n.data.conversationId = "p2_c1"

\* C33: a push invokes the conversations callback only for conversations
\* whose pageId is in the subscriber's page list, and passes every insert or
\* update of a conversation on a listed page with its event type and row.
C33_ConversationsFilteredByPage ==
    [][Delivering =>
          /\ \A n \in received'.conversations \ received.conversations :
                \E ch \in channels : ch.id = n.channel /\ n.data.pageId \in ch.pageIds
          /\ \A ch \in { c \in channels : c.table = "conversations" } :
                \A chg \in { g \in Head(wal).conversations :
                                g.row.pageId \in ch.pageIds
                                    /\ g.eventType \in {"INSERT", "UPDATE"} } :
                    \E n \in received'.conversations :
                        /\ n.channel = ch.id
                        /\ n.type = chg.eventType
                        /\ n.data = chg.row]_vars

\* The subscriber of page p1 was passed the insert and an update of p1_c1,
\* and the creation of a conversation on page p2 is about to be pushed.
C33_Witness ==
    /\ channels = {ConversationsChannel(1, {"p1"})}
    /\ \E n \in received.conversations : n.type = "INSERT" /\ n.data.id = "p1_c1"
    /\ \E n \in received.conversations : n.type = "UPDATE" /\ n.data.id = "p1_c1"
    /\ wal # <<>>
    /\ \E chg \in Head(wal).conversations :
          chg.eventType = "INSERT" /\ chg.row.pageId = "p2"

MessagesOf(c) == { id \in Ids(messages) : messages[id].conversationId = c }

\* C35: whenever no recording is under way, each conversation that has
\* stored messages carries the timestamp of the latest of them as its
\* lastTimestamp and that message's text as its lastMessage.
C35_LastMessageIsLatest ==
    ((\A r \in Requests : pc[r] = "idle") /\ api.pc = "idle") =>
        \A c \in Ids(conversations) :
            MessagesOf(c) # {} =>
                \E id \in MessagesOf(c) :
                    /\ \A o \in MessagesOf(c) :
                          TsLte(messages[o].timestamp, messages[id].timestamp)
                    /\ conversations[c].lastTimestamp = messages[id].timestamp
                    /\ conversations[c].lastMessage = messages[id].text

\* C36: when the insert of the inbound message stores nothing (store error
\* or duplicate id), the conversations that existed when the event arrived
\* have the lastMessage, lastTimestamp and unreadCount they had then (the
\* request ran alone, so nothing else wrote in between).
C36_FailedRecordingLeavesConversation ==
    [][\A r \in Requests :
          (InsertStep(r) /\ snap[r].solo /\ messages' = messages) =>
              \A c \in Ids(snap[r].conversations) :
                  \A f \in {"lastMessage", "lastTimestamp", "unreadCount"} :
                      conversations'[c][f] = snap[r].conversations[c][f]]_vars

\* C37: different {page, customer} pairs never resolve to the same
\* conversation id: no step replaces the page or the customer of a stored
\* conversation row.
C37_IdentityInjective ==
    [][\A c \in Ids(conversations) :
          /\ conversations'[c].pageId = conversations[c].pageId
          /\ conversations'[c].customerId = conversations[c].customerId]_vars

\* C38: in every reachable state the conversationId of each stored message
\* is the id of a stored conversation.
C38_MessagesReferToConversations ==
    \A id \in Ids(messages) : messages[id].conversationId \in Ids(conversations)

\* The first-contact message m1 ended with its conversation write failed
\* and nothing stored, and a send to the unknown conversation p1_c9 was
\* answered with 500.
C38_Witness ==
    /\ pc["w1"] = "done" /\ failed["w1"] /\ Handles("w1", "select")
    /\ EventOf("w1").mid \notin Ids(messages)
    /\ conversations = EmptyTable
    /\ api.pc = "done" /\ api.op = "send" /\ api.conversationId = "p1_c9"
    /\ api.status = 500

\* C39: no step sets the read flag of a stored message back: a message
\* with isRead true before a step is stored with isRead true after it.
C39_ReadFlagMonotonic ==
    [][\A id \in Ids(messages) :
          messages[id].isRead => id \in Ids(messages') /\ messages'[id].isRead]_vars

\* A read receipt handled on its own found a message already read whose
\* timestamp lies after the receipt's watermark, and left it read.
C39_Witness ==
    \E r \in Requests :
        /\ DoneSolo(r) /\ Handles(r, "read") /\ ~failed[r]
        /\ \E id \in Ids(snap[r].messages) :
              /\ snap[r].messages[id].isRead
              /\ ~TsLte(snap[r].messages[id].timestamp, ToISOString(EventOf(r).watermark))
              /\ messages[id].isRead

\* C40: while a send is in flight no step starts another one: the send log
\* gets no further entry, the local view no further optimistic entry, and
\* the request in flight stays the one it was.
C40_OneSendInProgress ==
    [][isSending =>
          /\ Len(sendLog') = Len(sendLog)
          /\ \A n \in 1..(MaxSends + 1) :
                TempId(n) \in Ids(localMessages') => TempId(n) \in Ids(localMessages)
          /\ pending' # NoSend => pending'.n = pending.n]_vars

\* A send is in flight while everything else a further handleSend needs is
\* there: an open chat on a connected page, valid text in the input, and
\* room for another send.
C40_Witness ==
    /\ isSending /\ pending # NoSend /\ pending.stage = "sent"
    /\ chat.open /\ chat.pageConnected
    /\ inputText # "" /\ ValidContent(inputText)
    /\ Len(sendLog) < MaxSends
    /\ TempId(Len(sendLog)) \in Ids(localMessages)
====
